---- MODULE Spec2Model ----
(***************************************************************************)
(* dn-check: domain-name availability checker.                             *)
(*                                                                         *)
(* Two programs of the repository are modelled:                            *)
(*   - the concurrent main() (one goroutine per (name, tld) pair, an       *)
(*     unbuffered results channel, a WaitGroup and a closer goroutine);    *)
(*     specification Spec, and FairSpec for liveness;                      *)
(*   - the sequential run()/main() (nested loops, abort on first error);   *)
(*     specification SeqSpec.                                              *)
(***************************************************************************)
EXTENDS Integers, Sequences, FiniteSets, TLC

\* ------------------------------------------------------------------ bounds
MaxNames == 2
MaxTLDs == 2
MaxTasks == 2

\* Alphabets the inputs are drawn from.  "" is a blank entry of the name list.
NameAlphabet == {"a", "b", ""}
TLDAlphabet == {"com", "net"}
OutputNames == {"", "out"}

SeqsUpTo(S, lo, hi) == UNION {[1..n -> S] : n \in lo..hi}

\* ---------------------------------------------------------------- resolver
\* What net.LookupHost(domain) can return to its caller:
\*   "Registered"  addresses, err == nil
\*   "NoSuchHost"  *net.DNSError with IsNotFound  (definitive not-found)
\*   "DNSTimeout"  *net.DNSError with IsTimeout   (resolver timeout)
\*   "SysError"    an error that is not a *net.DNSError
\* and it may not return at all (no deadline is set): see LookupHangs.
LookupOutcomes == {"Registered", "NoSuchHost", "DNSTimeout", "SysError"}

ErrIsNil(o) == o = "Registered"
ErrIsDNSError(o) == o \in {"NoSuchHost", "DNSTimeout"}

\* The resolver contract of the specification: every failure other than the
\* definitive not-found is a transient error.
Transient(o) == o \notin {"Registered", "NoSuchHost"}

\* domain := name + "." + tld
FQDN(name, tld) == name \o "." \o tld

\* isDomainNameAvailable with the two non-error verdicts exchanged.
isDomainNameAvailableInverted(o) ==
    IF ~ErrIsNil(o)
    THEN IF ErrIsDNSError(o)
         THEN [available |-> FALSE, err |-> "nil"]
         ELSE [available |-> FALSE, err |-> o]
    ELSE [available |-> TRUE, err |-> "nil"]

\* isDomainNameAvailable, applied to the outcome of net.LookupHost:
\* the pair (available, err) it returns.
isDomainNameAvailable(o) ==
    IF ~ErrIsNil(o)
    THEN IF ErrIsDNSError(o)
         THEN [available |-> TRUE, err |-> "nil"]
         ELSE [available |-> FALSE, err |-> o]
    ELSE [available |-> FALSE, err |-> "nil"]

\* TLD{TLDName: tld, IsAvailable: available}
TLD(tld, available) == [TLDName |-> tld, IsAvailable |-> available]
\* Result{Name: name, TLDList: tldList}
Result(name, tldList) == [Name |-> name, TLDList |-> tldList]

\* ------------------------------------------------------------------- JSON
\* encoding/json on []Result: a nil slice encodes as null, a struct as an
\* object keyed by its json tags.
JNull == [t |-> "null"]
JArray(items) == [t |-> "array", items |-> items]

MarshalTLD(v) == [tld |-> v.TLDName, is_available |-> v.IsAvailable]

MarshalTLDList(l) ==
    IF l = <<>> THEN JNull
    ELSE JArray([i \in 1..Len(l) |-> MarshalTLD(l[i])])

MarshalResult(r) == [name |-> r.Name, tlds |-> MarshalTLDList(r.TLDList)]

MarshalIndent(rs) ==
    IF rs = <<>> THEN JNull
    ELSE JArray([i \in 1..Len(rs) |-> MarshalResult(rs[i])])

\* ------------------------------------------------------------------ state
VARIABLES
    options,      \* Options: NamesList, TLDsList, Json, Output, Verbose
    mainPC,       \* position of the main goroutine
    ni, ti,       \* indices of the name loop and the tld loop
    wg,           \* sync.WaitGroup counter
    tasks,        \* the checkDomains goroutines, in dispatch order
    closerPC,     \* position of the closer goroutine (wg.Wait; close)
    closed,       \* the results channel has been closed
    jsonResults,  \* main's jsonResults slice
    stdout,       \* what has been printed, in order
    file,         \* content of the output file ("absent" until written)
    exitCode,     \* -1 while running, else the process exit status
    Results,      \* run(): Results
    tldsAcc,      \* run(): tlds
    runErr,       \* run(): the returned error ("nil" when none)
    NamesResult,  \* sequential main(): the list run() returned
    queries,      \* run(): the domains handed to the resolver, in order
    args,         \* the command line and the names file readOptions() sees
    fileRead      \* readNamesFromFile has been called

vars == <<options, mainPC, ni, ti, wg, tasks, closerPC, closed, jsonResults,
          stdout, file, exitCode, Results, tldsAcc, runErr, NamesResult, queries,
          args, fileRead>>

cliVars == <<args, fileRead>>

seqVars == <<Results, tldsAcc, runErr, NamesResult, queries>>
concVars == <<wg, tasks, closerPC, closed, jsonResults>>

\* The output file: absent until created, then its format and content.
FileAbsent == [exists |-> FALSE]
FileWith(fmt, content) == [exists |-> TRUE, fmt |-> fmt, content |-> content]

Diag(text) == [kind |-> "diag", body |-> text]
Line(text) == [kind |-> "result", body |-> text]
Json(doc) == [kind |-> "json", body |-> doc]

\* The inputs readOptions() can hand to main: -n/-f give any list of names
\* (blank entries included), -d a non-empty list of TLDs.
InputOptions ==
    {[NamesList |-> n, TLDsList |-> d, Json |-> j, Output |-> o, Verbose |-> v] :
        n \in SeqsUpTo(NameAlphabet, 0, MaxNames),
        d \in SeqsUpTo(TLDAlphabet, 1, MaxTLDs),
        j \in BOOLEAN, o \in OutputNames, v \in BOOLEAN}

\* The command line of a run that starts after readOptions(): no flags.
NoArgs ==
    [n |-> <<>>, f |-> "", d |-> <<>>, j |-> FALSE, o |-> "", v |-> FALSE,
     h |-> FALSE, names |-> [ok |-> FALSE, lines |-> <<>>]]

\* ------------------------------------------------- concurrent main()
Init ==
    /\ options \in {o \in InputOptions :
                        /\ Len(o.NamesList) * Len(o.TLDsList) <= MaxTasks
                        /\ o.Verbose = FALSE}
    /\ mainPC = "dispatch"
    /\ ni = 1 /\ ti = 1
    /\ wg = 0
    /\ tasks = <<>>
    /\ closerPC = "none"
    /\ closed = FALSE
    /\ jsonResults = <<>>
    /\ stdout = <<>>
    /\ file = FileAbsent
    /\ exitCode = -1
    /\ Results = <<>> /\ tldsAcc = <<>> /\ runErr = "nil"
    /\ NamesResult = <<>> /\ queries = <<>>
    /\ args = NoArgs /\ fileRead = FALSE

TaskIds == 1..Len(tasks)

\* A goroutine handed the whole TLD list in place of the pair's one TLD.
NewTaskAllTLDs(name, tldList) ==
    [name |-> name, tlds |-> options.TLDsList, k |-> 1, tldList |-> <<>>,
     domains |-> <<>>, outs |-> <<>>, pc |-> "lookup"]

\* go checkDomains(name, []string{tld}, results, &wg): the new goroutine, at
\* the top of its tld loop.
NewTask(name, tldList) ==
    [name |-> name, tlds |-> tldList, k |-> 1, tldList |-> <<>>,
     domains |-> <<>>, outs |-> <<>>, pc |-> "lookup"]

\* The go statement without the wg.Add(1) before it.
DispatchWithoutAdd ==
    /\ mainPC = "dispatch"
    /\ ni <= Len(options.NamesList)
    /\ wg' = wg
    /\ tasks' = Append(tasks, NewTask(options.NamesList[ni], <<options.TLDsList[ti]>>))
    /\ IF ti < Len(options.TLDsList)
       THEN ni' = ni /\ ti' = ti + 1
       ELSE ni' = ni + 1 /\ ti' = 1
    /\ UNCHANGED <<cliVars, options, mainPC, closerPC, closed, jsonResults, stdout, file,
                   exitCode, seqVars>>

\* One iteration of the nested dispatch loops: wg.Add(1); go checkDomains(...)
Dispatch ==
    /\ mainPC = "dispatch"
    /\ ni <= Len(options.NamesList)
    /\ wg' = wg + 1
    /\ tasks' = Append(tasks, NewTask(options.NamesList[ni], <<options.TLDsList[ti]>>))
    /\ IF ti < Len(options.TLDsList)
       THEN ni' = ni /\ ti' = ti + 1
       ELSE ni' = ni + 1 /\ ti' = 1
    /\ UNCHANGED <<cliVars, options, mainPC, closerPC, closed, jsonResults, stdout, file,
                   exitCode, seqVars>>

\* The loops are over: go func() { wg.Wait(); close(results) }(), and main
\* goes on to range over the channel.
SpawnCloser ==
    /\ mainPC = "dispatch"
    /\ ni > Len(options.NamesList)
    /\ closerPC' = "wait"
    /\ mainPC' = "range"
    /\ UNCHANGED <<cliVars, options, ni, ti, wg, tasks, closed, jsonResults, stdout, file,
                   exitCode, seqVars>>

\* A Wait that does not wait for the counter.
WaitReturnsAtOnce == TRUE

\* wg.Wait() returns once the counter is zero.
WaitReturns == wg = 0

CloserWait ==
    /\ closerPC = "wait"
    /\ WaitReturns
    /\ closerPC' = "close"
    /\ UNCHANGED <<cliVars, options, mainPC, ni, ti, wg, tasks, closed, jsonResults, stdout,
                   file, exitCode, seqVars>>

\* close(results)
CloserClose ==
    /\ closerPC = "close"
    /\ closed' = TRUE
    /\ closerPC' = "end"
    /\ UNCHANGED <<cliVars, options, mainPC, ni, ti, wg, tasks, jsonResults, stdout, file,
                   exitCode, seqVars>>

\* Probes run one after the other, as a plain call in place of the go
\* statement would make them.
RunnableInTurn(t) ==
    /\ tasks[t].pc = "lookup"
    /\ \A u \in 1..(t - 1) : tasks[u].pc \notin {"lookup", "hung"}

\* A goroutine started by the go statement runs independently of every other.
Runnable(t) == tasks[t].pc = "lookup"

\* checkDomains returning on an error, without the send.
AfterLookupReturnOnError(task, o) ==
    LET r == isDomainNameAvailable(o)
        tld == task.tlds[task.k]
        domain == FQDN(task.name, tld)
        list == IF r.err # "nil"
                THEN task.tldList
                ELSE Append(task.tldList, TLD(tld, r.available))
    IN  [task EXCEPT !.tldList = list,
                     !.domains = Append(task.domains, domain),
                     !.outs = Append(task.outs, o),
                     !.k = task.k + 1,
                     !.pc = IF r.err # "nil" THEN "sent"
                            ELSE IF task.k < Len(task.tlds) THEN "lookup" ELSE "send"]

\* The task after one iteration of checkDomains' loop whose lookup returned o:
\* on an error nothing is appended (continue), otherwise the verdict is.
AfterLookup(task, o) ==
    LET r == isDomainNameAvailable(o)
        tld == task.tlds[task.k]
        domain == FQDN(task.name, tld)
        list == IF r.err # "nil"
                THEN task.tldList
                ELSE Append(task.tldList, TLD(tld, r.available))
    IN  [task EXCEPT !.tldList = list,
                     !.domains = Append(task.domains, domain),
                     !.outs = Append(task.outs, o),
                     !.k = task.k + 1,
                     !.pc = IF task.k < Len(task.tlds) THEN "lookup" ELSE "send"]

ErrorText(domain, o) ==
    "Error checking availability for domain " \o domain \o ": " \o o

\* checkDomains: one iteration, the resolver call returning outcome o.
Lookup(t) ==
    /\ t \in TaskIds
    /\ Runnable(t)
    /\ \E o \in LookupOutcomes :
         LET task == tasks[t]
             domain == FQDN(task.name, task.tlds[task.k])
         IN  /\ tasks' = [tasks EXCEPT ![t] = AfterLookup(task, o)]
             /\ stdout' = IF isDomainNameAvailable(o).err # "nil"
                          THEN Append(stdout, Diag(ErrorText(domain, o)))
                          ELSE stdout
    /\ UNCHANGED <<cliVars, options, mainPC, ni, ti, wg, closerPC, closed, jsonResults, file,
                   exitCode, seqVars>>

\* checkDomains: the resolver call never returns (no deadline is set).
LookupHangs(t) ==
    /\ t \in TaskIds
    /\ Runnable(t)
    /\ tasks' = [tasks EXCEPT
                    ![t].pc = "hung",
                    ![t].domains = Append(@, FQDN(tasks[t].name, tasks[t].tlds[tasks[t].k]))]
    /\ UNCHANGED <<cliVars, options, mainPC, ni, ti, wg, closerPC, closed, jsonResults, stdout,
                   file, exitCode, seqVars>>

\* The lines the plain-text loop prints for one received Result.
TextLines(result) ==
    [i \in 1..Len(result.TLDList) |->
        LET v == result.TLDList[i]
        IN  Line(IF v.IsAvailable
                 THEN FQDN(result.Name, v.TLDName) \o " is available"
                 ELSE FQDN(result.Name, v.TLDName) \o " is not available")]

\* results <- Result{...} in task t meets main's receive (the channel is
\* unbuffered), and main runs the body of its range loop.
Receive(t) ==
    /\ t \in TaskIds
    /\ mainPC = "range"
    /\ tasks[t].pc = "send"
    /\ ~closed
    /\ LET result == Result(tasks[t].name, tasks[t].tldList)
       IN  IF options.Json
           THEN /\ jsonResults' = Append(jsonResults, result)
                /\ stdout' = stdout
           ELSE /\ stdout' = stdout \o TextLines(result)
                /\ jsonResults' = jsonResults
    /\ tasks' = [tasks EXCEPT ![t].pc = "sent"]
    /\ UNCHANGED <<cliVars, options, mainPC, ni, ti, wg, closerPC, closed, file, exitCode,
                   seqVars>>

\* The end of a task without the deferred wg.Done().
TaskDoneForgotten(t) ==
    /\ t \in TaskIds
    /\ tasks[t].pc = "sent"
    /\ wg' = wg
    /\ tasks' = [tasks EXCEPT ![t].pc = "done"]
    /\ UNCHANGED <<cliVars, options, mainPC, ni, ti, closerPC, closed, jsonResults, stdout,
                   file, exitCode, seqVars>>

\* defer wg.Done()
TaskDone(t) ==
    /\ t \in TaskIds
    /\ tasks[t].pc = "sent"
    /\ wg' = wg - 1
    /\ tasks' = [tasks EXCEPT ![t].pc = "done"]
    /\ UNCHANGED <<cliVars, options, mainPC, ni, ti, closerPC, closed, jsonResults, stdout,
                   file, exitCode, seqVars>>

\* The range loop ends when the channel is closed.  With -j the collected
\* slice is marshalled and written to the -o file or printed; os.WriteFile
\* may fail (ok = FALSE).  Without -j there is nothing left to do.
RangeExit ==
    /\ mainPC = "range"
    /\ closed
    /\ mainPC' = "exit"
    /\ IF options.Json
       THEN LET jsonData == MarshalIndent(jsonResults)
            IN  IF options.Output # ""
                THEN \E ok \in BOOLEAN :
                       IF ok
                       THEN /\ file' = FileWith("json", jsonData)
                            /\ stdout' = stdout
                            /\ exitCode' = 0
                       ELSE /\ file' = file
                            /\ stdout' = Append(stdout, Diag("Error writing JSON data to file"))
                            /\ exitCode' = 1
                ELSE /\ stdout' = Append(stdout, Json(jsonData))
                     /\ file' = file
                     /\ exitCode' = 0
       ELSE /\ exitCode' = 0
            /\ UNCHANGED <<stdout, file>>
    /\ UNCHANGED <<cliVars, options, ni, ti, wg, tasks, closerPC, closed, jsonResults, seqVars>>

Next ==
    \/ Dispatch
    \/ SpawnCloser
    \/ CloserWait
    \/ CloserClose
    \/ \E t \in TaskIds : Lookup(t)
    \/ \E t \in TaskIds : LookupHangs(t)
    \/ \E t \in TaskIds : Receive(t)
    \/ \E t \in TaskIds : TaskDone(t)
    \/ RangeExit

Spec == Init /\ [][Next]_vars

\* ------------------------------------------------- sequential run()/main()
\* What the verbose mode prints: the header, then per name a row of cells.
Header(names, tldList) == [kind |-> "header", names |-> Len(names), body |-> tldList]
NameCell(name) == [kind |-> "name", body |-> name]
\* VerboseOutput
VerboseOutput(s) == [kind |-> "cell", body |-> IF s THEN "YES" ELSE "NO"]
NewLine == [kind |-> "newline", body |-> ""]

WhenVerbose(out) == IF options.Verbose THEN out ELSE <<>>

SeqInit ==
    /\ options \in {o \in InputOptions :
                        Len(o.NamesList) * Len(o.TLDsList) <= MaxTasks}
    /\ mainPC = "run"
    /\ ni = 1 /\ ti = 1
    /\ wg = 0
    /\ tasks = <<>>
    /\ closerPC = "none"
    /\ closed = FALSE
    /\ jsonResults = <<>>
    /\ stdout = <<>>
    /\ file = FileAbsent
    /\ exitCode = -1
    /\ Results = <<>> /\ tldsAcc = <<>> /\ runErr = "nil"
    /\ NamesResult = <<>> /\ queries = <<>>
    /\ args = NoArgs /\ fileRead = FALSE

\* run(): entry; the header is printed in verbose mode.
RunStart ==
    /\ mainPC = "run"
    /\ stdout' = stdout \o WhenVerbose(<<Header(options.NamesList, options.TLDsList)>>)
    /\ mainPC' = "names"
    /\ UNCHANGED <<cliVars, options, ni, ti, file, exitCode, seqVars, concVars>>

\* run(): the name loop meets an empty name and skips it.
RunSkipBlank ==
    /\ mainPC = "names"
    /\ ni <= Len(options.NamesList)
    /\ options.NamesList[ni] = ""
    /\ ni' = ni + 1
    /\ UNCHANGED <<cliVars, options, mainPC, ti, stdout, file, exitCode, seqVars, concVars>>

\* The start of a name's tld loop without the reset of tlds.
RunBeginNameNoReset ==
    /\ mainPC = "names"
    /\ ni <= Len(options.NamesList)
    /\ options.NamesList[ni] # ""
    /\ stdout' = stdout \o WhenVerbose(<<NameCell(options.NamesList[ni])>>)
    /\ tldsAcc' = tldsAcc
    /\ ti' = 1
    /\ mainPC' = "tlds"
    /\ UNCHANGED <<cliVars, options, ni, file, exitCode, Results, runErr, NamesResult,
                   queries, concVars>>

\* run(): the name loop meets a non-empty name: tlds = nil, and the tld loop
\* starts.
RunBeginName ==
    /\ mainPC = "names"
    /\ ni <= Len(options.NamesList)
    /\ options.NamesList[ni] # ""
    /\ stdout' = stdout \o WhenVerbose(<<NameCell(options.NamesList[ni])>>)
    /\ tldsAcc' = <<>>
    /\ ti' = 1
    /\ mainPC' = "tlds"
    /\ UNCHANGED <<cliVars, options, ni, file, exitCode, Results, runErr, NamesResult,
                   queries, concVars>>

\* The tld loop going on to the next TLD after an error.
RunProbeContinue ==
    /\ mainPC = "tlds"
    /\ ti <= Len(options.TLDsList)
    /\ \E o \in LookupOutcomes :
         LET name == options.NamesList[ni]
             tld == options.TLDsList[ti]
             r == isDomainNameAvailable(o)
         IN  /\ queries' = Append(queries, FQDN(name, tld))
             /\ IF r.err # "nil"
                THEN /\ stdout' = Append(stdout, Diag(r.err))
                     /\ runErr' = r.err
                     /\ ti' = ti + 1
                     /\ UNCHANGED <<tldsAcc, NamesResult, mainPC>>
                ELSE /\ tldsAcc' = Append(tldsAcc, TLD(tld, r.available))
                     /\ stdout' = stdout \o WhenVerbose(<<VerboseOutput(r.available)>>)
                     /\ ti' = ti + 1
                     /\ UNCHANGED <<runErr, NamesResult, mainPC>>
    /\ UNCHANGED <<cliVars, options, ni, file, exitCode, Results, concVars>>

\* run(): one iteration of the tld loop, the resolver returning outcome o.
\* An error is printed and returned at once, with a nil result list.
RunProbe ==
    /\ mainPC = "tlds"
    /\ ti <= Len(options.TLDsList)
    /\ \E o \in LookupOutcomes :
         LET name == options.NamesList[ni]
             tld == options.TLDsList[ti]
             r == isDomainNameAvailable(o)
         IN  /\ queries' = Append(queries, FQDN(name, tld))
             /\ IF r.err # "nil"
                THEN /\ stdout' = Append(stdout, Diag(r.err))
                     /\ runErr' = r.err
                     /\ NamesResult' = <<>>
                     /\ mainPC' = "returned"
                     /\ UNCHANGED <<ti, tldsAcc>>
                ELSE /\ tldsAcc' = Append(tldsAcc, TLD(tld, r.available))
                     /\ stdout' = stdout \o WhenVerbose(<<VerboseOutput(r.available)>>)
                     /\ ti' = ti + 1
                     /\ UNCHANGED <<runErr, NamesResult, mainPC>>
    /\ UNCHANGED <<cliVars, options, ni, file, exitCode, Results, concVars>>

\* run(): the tld loop is over: the name's Result is appended.
RunEndName ==
    /\ mainPC = "tlds"
    /\ ti > Len(options.TLDsList)
    /\ stdout' = stdout \o WhenVerbose(<<NewLine>>)
    /\ Results' = Append(Results, Result(options.NamesList[ni], tldsAcc))
    /\ ni' = ni + 1
    /\ mainPC' = "names"
    /\ UNCHANGED <<cliVars, options, ti, file, exitCode, tldsAcc, runErr, NamesResult,
                   queries, concVars>>

\* run(): return Results, nil
RunReturn ==
    /\ mainPC = "names"
    /\ ni > Len(options.NamesList)
    /\ NamesResult' = Results
    /\ mainPC' = "returned"
    /\ UNCHANGED <<cliVars, options, ni, ti, stdout, file, exitCode, Results, tldsAcc, runErr,
                   queries, concVars>>

\* The lines SpoolOutputToFile writes without -j: "name.tld : true|false".
SpoolLines(results) ==
    LET lines(r) == [i \in 1..Len(r.TLDList) |->
                        FQDN(r.Name, r.TLDList[i].TLDName) \o " : " \o
                        (IF r.TLDList[i].IsAvailable THEN "true" ELSE "false")]
        RECURSIVE all(_)
        all(k) == IF k > Len(results) THEN <<>> ELSE lines(results[k]) \o all(k + 1)
    IN  all(1)

\* SpoolOutputToFile: the content of the created file.
SpoolOutputToFile(results, jsonOutput) ==
    IF jsonOutput
    THEN FileWith("json", MarshalIndent(results))
    ELSE FileWith("text", SpoolLines(results))

\* main() after run(): exit 1 on an error; otherwise spool to the -o file when
\* one is given (os.Create may fail: ok = FALSE).
MainAfterRun ==
    /\ mainPC = "returned"
    /\ mainPC' = "exit"
    /\ IF runErr # "nil"
       THEN /\ stdout' = Append(stdout, Diag(runErr))
            /\ exitCode' = 1
            /\ file' = file
       ELSE IF options.Output # ""
            THEN \E ok \in BOOLEAN :
                   IF ok
                   THEN /\ file' = SpoolOutputToFile(NamesResult, options.Json)
                        /\ stdout' = stdout
                        /\ exitCode' = 0
                   ELSE /\ file' = file
                        /\ stdout' = Append(stdout, Diag("create failed"))
                        /\ exitCode' = 1
            ELSE /\ exitCode' = 0
                 /\ UNCHANGED <<stdout, file>>
    /\ UNCHANGED <<cliVars, options, ni, ti, seqVars, concVars>>

SeqNext ==
    \/ RunStart
    \/ RunSkipBlank
    \/ RunBeginName
    \/ RunProbe
    \/ RunEndName
    \/ RunReturn
    \/ MainAfterRun

SeqSpec == SeqInit /\ [][SeqNext]_vars

\* No step of the concurrent program branches on the text of a name or of a
\* TLD: how the goroutines can be scheduled depends on the lengths of the two
\* lists alone.  Progress is therefore checked from the inputs of Init whose
\* entries are all the same name and the same TLD.
FairInit ==
    /\ Init
    /\ \A i \in 1..Len(options.NamesList) : options.NamesList[i] = "a"
    /\ \A i \in 1..Len(options.TLDsList) : options.TLDsList[i] = "com"

\* Every step of the program other than a resolver call failing to return.
Progress ==
    \/ Dispatch
    \/ SpawnCloser
    \/ CloserWait
    \/ CloserClose
    \/ \E t \in TaskIds : Lookup(t)
    \/ \E t \in TaskIds : Receive(t)
    \/ \E t \in TaskIds : TaskDone(t)
    \/ RangeExit

\* Scheduling: as long as some goroutine can take a step, one of them
\* eventually does.  (The Go scheduler is fairer than this: it runs every
\* runnable goroutine.)  Nothing forces a resolver call to return.
FairSpec == FairInit /\ [][Next]_vars /\ WF_vars(Progress)

\* ----------------------------------------------------------- readOptions()
\* A flag value is a sequence of pieces: "," is the separator, every other
\* piece a run of characters without one.  A line of the names file is a
\* sequence of pieces too, " " being white space.
MaxArgLen == 3

RECURSIVE Join(_)
Join(pieces) == IF pieces = <<>> THEN "" ELSE Head(pieces) \o Join(Tail(pieces))

\* strings.Split(s, ","): one more field than there are separators.
RECURSIVE Split(_)
Split(pieces) ==
    IF pieces = <<>> THEN <<"">>
    ELSE LET rest == Split(Tail(pieces))
         IN  IF Head(pieces) = ","
             THEN <<"">> \o rest
             ELSE <<Head(pieces) \o Head(rest)>> \o Tail(rest)

\* strings.TrimSpace
RECURSIVE TrimLeft(_)
TrimLeft(line) ==
    IF line # <<>> /\ Head(line) = " " THEN TrimLeft(Tail(line)) ELSE line

RECURSIVE TrimRight(_)
TrimRight(line) ==
    IF line # <<>> /\ line[Len(line)] = " "
    THEN TrimRight(SubSeq(line, 1, Len(line) - 1))
    ELSE line

TrimSpace(line) == Join(TrimRight(TrimLeft(line)))

\* readNamesFromFile: the trimmed lines, or an error when the file cannot be
\* opened.
readNamesFromFile(names) ==
    IF names.ok
    THEN [names |-> [i \in 1..Len(names.lines) |-> TrimSpace(names.lines[i])],
          err |-> FALSE]
    ELSE [names |-> <<>>, err |-> TRUE]

OptionsOf(a, names) ==
    [NamesList |-> names, TLDsList |-> Split(a.d), Json |-> a.j, Output |-> a.o,
     Verbose |-> a.v]

NoOptions ==
    [NamesList |-> <<>>, TLDsList |-> <<>>, Json |-> FALSE, Output |-> "",
     Verbose |-> FALSE]

\* readOptions with the two sources of names tried in the other order.
readOptionsFileFirst(a) ==
    IF a.h
    THEN [exit |-> 0, opts |-> NoOptions, read |-> FALSE]
    ELSE IF a.f = ""
         THEN IF Join(a.n) = ""
              THEN [exit |-> 1, opts |-> OptionsOf(a, <<>>), read |-> FALSE]
              ELSE [exit |-> -1, opts |-> OptionsOf(a, Split(a.n)), read |-> FALSE]
         ELSE [exit |-> -1, opts |-> OptionsOf(a, readNamesFromFile(a.names).names),
               read |-> TRUE]

\* readOptions: the exit status when it ends the process (-1 when it
\* returns), the Options it builds, and whether the names file was read.
\* The error of readNamesFromFile is dropped: the name list is then nil.
readOptions(a) ==
    IF a.h
    THEN [exit |-> 0, opts |-> NoOptions, read |-> FALSE]
    ELSE IF Join(a.n) = ""
         THEN IF a.f = ""
              THEN [exit |-> 1, opts |-> OptionsOf(a, <<>>), read |-> FALSE]
              ELSE [exit |-> -1, opts |-> OptionsOf(a, readNamesFromFile(a.names).names),
                    read |-> TRUE]
         ELSE [exit |-> -1, opts |-> OptionsOf(a, Split(a.n)), read |-> FALSE]

\* The names files of the model: one that cannot be opened, an empty one, and
\* one with a padded name and an empty line.
NamesFiles ==
    {[ok |-> FALSE, lines |-> <<>>],
     [ok |-> TRUE, lines |-> <<>>],
     [ok |-> TRUE, lines |-> << <<" ", "b", " ">>, <<>> >>]}

Count(pieces, x) == Cardinality({i \in 1..Len(pieces) : pieces[i] = x})

\* The command lines of the model.
CommandLines ==
    {[n |-> n, f |-> f, d |-> d, j |-> j, o |-> "", v |-> FALSE, h |-> h,
      names |-> names] :
        n \in SeqsUpTo({"a", ","}, 0, MaxArgLen),
        f \in {"", "names.txt"},
        d \in {<<"com">>, <<"com", ",", "net">>},
        j \in BOOLEAN, h \in BOOLEAN,
        names \in NamesFiles}

OptInit ==
    /\ args \in {a \in CommandLines :
                    /\ Count(a.n, ",") + 1 <= MaxNames
                    /\ (Count(a.n, ",") + 1) * (Count(a.d, ",") + 1) <= MaxTasks
                    /\ Len(a.names.lines) * (Count(a.d, ",") + 1) <= MaxTasks}
    /\ fileRead = FALSE
    /\ options = NoOptions
    /\ mainPC = "readOptions"
    /\ ni = 1 /\ ti = 1
    /\ wg = 0
    /\ tasks = <<>>
    /\ closerPC = "none"
    /\ closed = FALSE
    /\ jsonResults = <<>>
    /\ stdout = <<>>
    /\ file = FileAbsent
    /\ exitCode = -1
    /\ Results = <<>> /\ tldsAcc = <<>> /\ runErr = "nil"
    /\ NamesResult = <<>> /\ queries = <<>>

\* main: options := readOptions()
ReadOptions ==
    /\ mainPC = "readOptions"
    /\ LET r == readOptions(args)
       IN  /\ options' = r.opts
           /\ fileRead' = r.read
           /\ exitCode' = r.exit
           /\ mainPC' = IF r.exit = -1 THEN "dispatch" ELSE "exit"
           /\ stdout' = IF r.exit = 1
                        THEN Append(stdout, Diag("Error: No names provided"))
                        ELSE stdout
    /\ UNCHANGED <<args, ni, ti, file, seqVars, concVars>>

OptNext ==
    \/ ReadOptions
    \/ Next

OptSpec == OptInit /\ [][OptNext]_vars

\* ------------------------------------------------------------- properties
NonBlank(names) == SelectSeq(names, LAMBDA n : n # "")
NumPairs == Len(options.NamesList) * Len(options.TLDsList)

\* The (name, tld) pair the t-th dispatched task belongs to.
PairName(t) == options.NamesList[((t - 1) \div Len(options.TLDsList)) + 1]
PairTLD(t) == options.TLDsList[((t - 1) % Len(options.TLDsList)) + 1]

Returned(t) == tasks[t].pc \in {"send", "sent", "done"}
Delivered(t) == tasks[t].pc \in {"sent", "done"}
AllDispatched == mainPC # "dispatch" /\ Len(tasks) = NumPairs
Completed == mainPC = "exit"

RECURSIVE VerdictCount(_)
VerdictCount(rs) ==
    IF rs = <<>> THEN 0 ELSE Len(Head(rs).TLDList) + VerdictCount(Tail(rs))

ResultNames(rs) == [i \in 1..Len(rs) |-> rs[i].Name]

\* C1: a probe whose lookup ends in anything but success or a definitive
\* not-found (a timeout, a system error) yields no verdict for its pair.
C1_TransientYieldsNoVerdict ==
    \A t \in TaskIds :
        \A i \in 1..Len(tasks[t].outs) :
            Transient(tasks[t].outs[i]) =>
                \A j \in 1..Len(tasks[t].tldList) :
                    tasks[t].tldList[j].TLDName # tasks[t].tlds[i]

\* C2: the probe of the t-th pair resolves name + "." + tld, and yields
\* exactly {tld, false} on Registered and exactly {tld, true} on NotFound;
\* that verdict is what the consumer collects under the name.
C2_Classification ==
    \A t \in TaskIds :
        LET task == tasks[t] IN
        Returned(t) =>
            /\ task.domains = <<PairName(t) \o "." \o PairTLD(t)>>
            /\ task.outs[1] = "Registered" =>
                 task.tldList = <<[TLDName |-> PairTLD(t), IsAvailable |-> FALSE]>>
            /\ task.outs[1] = "NoSuchHost" =>
                 task.tldList = <<[TLDName |-> PairTLD(t), IsAvailable |-> TRUE]>>
            /\ (Delivered(t) /\ options.Json /\ ~Transient(task.outs[1])) =>
                 \E i \in 1..Len(jsonResults) :
                    jsonResults[i] =
                      [Name |-> PairName(t),
                       TLDList |-> <<[TLDName |-> PairTLD(t),
                                      IsAvailable |-> task.outs[1] = "NoSuchHost"]>>]

C2_Witness ==
    /\ Len(tasks) = 2
    /\ options.Json
    /\ Delivered(1) /\ tasks[1].outs = <<"Registered">>
    /\ Delivered(2) /\ tasks[2].outs = <<"NoSuchHost">>

\* C3: the collected result set holds exactly one result per non-blank input
\* name, in the order of the input name list (results carrying a blank name
\* are left out of the comparison).
C3_OneResultPerNameInOrder ==
    (Completed /\ options.Json) =>
        NonBlank(ResultNames(jsonResults)) = NonBlank(options.NamesList)

\* C4: for every pair whose probe did not end in a transient error exactly
\* one verdict is collected under its name, and the number of collected
\* verdicts is N x M minus the number of probes that ended in a transient error.
C4_NoVerdictLostOrDuplicated ==
    (Completed /\ options.Json) =>
        /\ \A t \in TaskIds :
             ~Transient(tasks[t].outs[1]) =>
                Cardinality({i \in 1..Len(jsonResults) :
                    /\ jsonResults[i].Name = PairName(t)
                    /\ \E j \in 1..Len(jsonResults[i].TLDList) :
                          jsonResults[i].TLDList[j].TLDName = PairTLD(t)})
                  = Cardinality({u \in TaskIds :
                        /\ PairName(u) = PairName(t) /\ PairTLD(u) = PairTLD(t)
                        /\ ~Transient(tasks[u].outs[1])})
        /\ VerdictCount(jsonResults) =
             NumPairs - Cardinality({t \in TaskIds : Transient(tasks[t].outs[1])})

\* C5: collection ends (the channel is closed, the receive loop exits) only
\* after every pair has been dispatched and every dispatched task is done.
C5_JoinBarrier ==
    (closed \/ Completed) =>
        /\ AllDispatched
        /\ \A t \in TaskIds : tasks[t].pc = "done"

C5_Witness ==
    /\ Completed
    /\ Len(tasks) = 2
    /\ \E t \in TaskIds : tasks[t].outs = <<"SysError">>
    /\ \E t \in TaskIds : tasks[t].outs = <<"NoSuchHost">>

Rendered ==
    \/ \E i \in 1..Len(stdout) : stdout[i].kind \in {"result", "json"}
    \/ file.exists

\* C6: nothing is rendered (printed or written) before every dispatched
\* probe task has completed.
C6_NoRenderBeforeBarrier ==
    Rendered => (AllDispatched /\ \A t \in TaskIds : Delivered(t))

\* C7: no probe is issued for an empty name, and no result carries one.
C7_BlankNamesFiltered ==
    /\ \A t \in TaskIds : tasks[t].domains # <<>> => tasks[t].name # ""
    /\ \A i \in 1..Len(jsonResults) : jsonResults[i].Name # ""

\* C8: an error on one probe aborts nothing: when the run is over every
\* pair of a non-blank name and a tld has been probed.
C8_ErrorNeverAborts ==
    Completed =>
        Len(queries) = Len(NonBlank(options.NamesList)) * Len(options.TLDsList)

\* C9: a non-blank name all of whose probes returned an error appears
\* exactly once in the result set, with an empty verdict list.
C9_AllErroredNameAppearsOnce ==
    (Completed /\ options.Json) =>
        \A k \in 1..Len(options.NamesList) :
            LET n == options.NamesList[k] IN
            (/\ n # ""
             /\ \A t \in TaskIds :
                  tasks[t].name = n => isDomainNameAvailable(tasks[t].outs[1]).err # "nil")
            => /\ Cardinality({i \in 1..Len(jsonResults) : jsonResults[i].Name = n}) = 1
               /\ \A i \in 1..Len(jsonResults) :
                    jsonResults[i].Name = n => jsonResults[i].TLDList = <<>>

\* C10: whatever probes hang in the resolver, every dispatched task either
\* is itself hung or gets its lookup answered and its result received.
C10_HangDoesNotBlockOthers ==
    \A t \in 1..MaxTasks :
        (t \in TaskIds) ~> (t \in TaskIds /\ (tasks[t].pc = "hung" \/ Delivered(t)))

C10_Witness ==
    \E t, u \in TaskIds : tasks[t].pc = "hung" /\ u > t /\ Delivered(u)

\* The t-th pair of the cross product has not had its resolver call yet.
AwaitsProbe(t) == t <= NumPairs /\ (t \notin TaskIds \/ tasks[t].domains = <<>>)
\* The t-th pair has had exactly one resolver call.
Probed(t) == t \in TaskIds /\ Len(tasks[t].domains) = 1

C12_OutputFileWritten ==
    (/\ Completed /\ exitCode = 0 /\ options.Output # ""
     /\ \E t \in TaskIds : tasks[t].tldList # <<>>) =>
        /\ file.exists
        /\ options.Json => (file.fmt = "json" /\ file.content = MarshalIndent(jsonResults))
        /\ ~options.Json => file.fmt = "text"

\* C13: -n wins over -f.  With -n given the name list is the comma-split
\* value of -n and the names file is not read; with -f alone the names are
\* the file's lines; with neither the program exits 1 and probes nothing.
C13_NamesPrecedence ==
    (mainPC # "readOptions" /\ ~args.h) =>
        /\ args.n # <<>> =>
              /\ options.NamesList = Split(args.n)
              /\ Len(options.NamesList) = Count(args.n, ",") + 1
              /\ ~fileRead
        /\ (args.n = <<>> /\ args.f # "") =>
              /\ fileRead
              /\ Len(options.NamesList) = Len(args.names.lines)
              /\ \A i \in 1..Len(options.NamesList) :
                    options.NamesList[i] = TrimSpace(args.names.lines[i])
        /\ (args.n = <<>> /\ args.f = "") =>
              /\ mainPC = "exit" /\ exitCode = 1
              /\ tasks = <<>> /\ ~fileRead

\* Both flags given, the file readable and not empty, the names of -n probed.
C13_Witness ==
    /\ args.n = <<"a", ",", "a">> /\ args.f # ""
    /\ args.names.ok /\ args.names.lines # <<>>
    /\ Len(tasks) = 2 /\ \A t \in TaskIds : tasks[t].domains = <<"a.com">>

\* The verbose table of a result list: the header, then per Result its name,
\* one YES/NO cell per verdict, and the end of the row.
TableRow(r) ==
    <<NameCell(r.Name)>> \o
    [i \in 1..Len(r.TLDList) |-> VerboseOutput(r.TLDList[i].IsAvailable)] \o
    <<NewLine>>

RECURSIVE TableRows(_)
TableRows(rs) == IF rs = <<>> THEN <<>> ELSE TableRow(Head(rs)) \o TableRows(Tail(rs))

Table(rs) == <<Header(options.NamesList, options.TLDsList)>> \o TableRows(rs)

TLDNames(r) == [i \in 1..Len(r.TLDList) |-> r.TLDList[i].TLDName]

\* C14: when the sequential run() returns without an error, the list holds
\* one Result per non-blank name in input order, each with one verdict per
\* TLD in the order of the TLD list; the verbose table printed is the table
\* of that list, its i-th cell under the i-th TLD of the header.
C14_SequentialResultShape ==
    (mainPC \in {"returned", "exit"} /\ runErr = "nil") =>
        /\ ResultNames(NamesResult) = NonBlank(options.NamesList)
        /\ \A k \in 1..Len(NamesResult) : TLDNames(NamesResult[k]) = options.TLDsList
        /\ options.Verbose =>
              /\ Len(stdout) >= Len(Table(NamesResult))
              /\ SubSeq(stdout, 1, Len(Table(NamesResult))) = Table(NamesResult)
              /\ stdout[1].body = options.TLDsList
        /\ ~options.Verbose =>
              \A i \in 1..Len(stdout) : stdout[i].kind = "diag"

\* A verbose run over one name and two different TLDs with different verdicts.
C14_Witness ==
    /\ mainPC = "exit" /\ runErr = "nil" /\ options.Verbose
    /\ Len(NamesResult) = 1 /\ Len(NamesResult[1].TLDList) = 2
    /\ options.TLDsList[1] # options.TLDsList[2]
    /\ NamesResult[1].TLDList[1].IsAvailable # NamesResult[1].TLDList[2].IsAvailable

\* The tasks that have not yet called wg.Done().
Outstanding == {t \in TaskIds : tasks[t].pc # "done"}

\* C15: the results channel is closed once, and only after every task's
\* send has been received: when it is closed every dispatched task is past
\* its send and its wg.Done(); the closer exists only after every Add; the
\* WaitGroup counts the tasks that have not signalled; a task signals only
\* after its send has returned; close is never executed on a closed channel.
C15_CloseAfterEverySend ==
    /\ [](/\ closed => (AllDispatched /\ Outstanding = {})
          /\ closerPC # "none" => AllDispatched
          /\ wg = Cardinality(Outstanding))
    /\ [][\A t \in TaskIds :
            (tasks[t].pc # "done" /\ tasks'[t].pc = "done") => tasks[t].pc = "sent"]_vars
    /\ [][CloserClose => ~closed]_vars
    /\ [][closed => closed']_vars

\* The channel closed behind two tasks, main still in its receive loop.
C15_Witness ==
    /\ closed /\ mainPC = "range"
    /\ Len(tasks) = 2 /\ \A t \in TaskIds : tasks[t].pc = "done"

SomeLookupHangs == \E t \in TaskIds : tasks[t].pc = "hung"

Terminated ==
    /\ Completed
    /\ closed /\ closerPC = "end"
    /\ AllDispatched
    /\ \A t \in TaskIds : tasks[t].pc = "done"

\* C16: under fair scheduling, unless a resolver call never returns, the
\* concurrent run terminates: every dispatched task finishes, the channel is
\* closed and main leaves its receive loop; this for every input, the empty
\* name list included.
C16_Terminates == <>(SomeLookupHangs \/ Terminated)

\* A run of two tasks that has terminated.
C16_Witness == Terminated /\ Len(tasks) = 2

\* A run over the empty name list that has terminated.
C16_WitnessEmpty == Terminated /\ options.NamesList = <<>>

DeliveredTasks == {t \in TaskIds : Delivered(t)}

Occurrences(rs, r) == Cardinality({i \in 1..Len(rs) : rs[i] = r})

\* C17: every dispatched task delivers one Result whether or not its probe
\* errored: a task past its probe holds an empty TLDList after an error and a
\* single verdict otherwise; the messages collected are, one for one, the
\* Results of the tasks whose send was received; at the end there are as many
\* as (name, tld) pairs.
C17_OneMessagePerTask ==
    /\ \A t \in TaskIds :
          Returned(t) =>
             /\ Len(tasks[t].outs) = 1
             /\ Len(tasks[t].tldList) =
                   IF isDomainNameAvailable(tasks[t].outs[1]).err # "nil" THEN 0 ELSE 1
    /\ options.Json =>
          /\ Len(jsonResults) = Cardinality(DeliveredTasks)
          /\ \A i \in 1..Len(jsonResults) :
                Occurrences(jsonResults, jsonResults[i]) =
                   Cardinality({t \in DeliveredTasks :
                      Result(tasks[t].name, tasks[t].tldList) = jsonResults[i]})
    /\ Completed =>
          /\ Cardinality(DeliveredTasks) = NumPairs
          /\ options.Json => Len(jsonResults) = NumPairs

\* Two messages collected, one of a probe that errored, one with a verdict.
C17_Witness ==
    /\ Completed /\ options.Json
    /\ Len(jsonResults) = 2
    /\ \E i, j \in 1..2 :
          Len(jsonResults[i].TLDList) = 0 /\ Len(jsonResults[j].TLDList) = 1

\* The probes run() makes when none fails: every non-blank name with every
\* TLD, names outermost.
RECURSIVE AllQueries(_, _)
AllQueries(names, tldList) ==
    IF names = <<>> THEN <<>>
    ELSE [i \in 1..Len(tldList) |-> FQDN(Head(names), tldList[i])] \o
         AllQueries(Tail(names), tldList)

RunHasReturned == mainPC \in {"returned", "exit"}

\* C18: the sequential run() returns either the complete list and no error,
\* or no list and the error of the first failing probe; a probe that fails
\* is the last one issued; main then exits 1 and writes no file.
C18_AllOrNothing ==
    /\ [](/\ (RunHasReturned /\ runErr = "nil") =>
                /\ ResultNames(NamesResult) = NonBlank(options.NamesList)
                /\ VerdictCount(NamesResult) =
                      Len(NonBlank(options.NamesList)) * Len(options.TLDsList)
                /\ queries = AllQueries(NonBlank(options.NamesList), options.TLDsList)
          /\ runErr # "nil" =>
                /\ RunHasReturned
                /\ NamesResult = <<>>
                /\ queries # <<>>
                /\ queries = SubSeq(AllQueries(NonBlank(options.NamesList),
                                               options.TLDsList), 1, Len(queries))
                /\ stdout # <<>> /\ stdout[Len(stdout)] = Diag(runErr)
                /\ ~file.exists
                /\ Completed => exitCode = 1
          /\ (Completed /\ runErr = "nil" /\ options.Output = "") => exitCode = 0)
    /\ [][runErr # "nil" => (runErr' = runErr /\ queries' = queries)]_vars
    /\ [][(runErr = "nil" /\ runErr' # "nil") =>
             (Len(queries') = Len(queries) + 1 /\ runErr' = "SysError")]_vars

\* The second of two probes fails, an output file was asked for, and main has
\* exited.
C18_Witness ==
    /\ Completed /\ runErr # "nil"
    /\ Len(queries) = 2
    /\ options.Output # ""

====
